---------------------------- MODULE Spec2Model ----------------------------
(***************************************************************************)
(* Model of the scan-report consolidators of SAST/:                        *)
(*   consolidate.py      queue + processes + threads + lock, csv.reader    *)
(*   old_consolidate.py  process pool + per-file chunk thread pool, pandas *)
(* and of the job trigger of SAST/:                                        *)
(*   run_xray.py         one queue of image names + threads per folder     *)
(*                                                                         *)
(* Strings are sequences of one-character strings, so that strip, lower,   *)
(* substring tests, splitting and code-point comparison are computed the   *)
(* way the Python code computes them.                                      *)
(***************************************************************************)
EXTENDS Integers, Sequences, FiniteSets, TLC

VARIABLES
    \* ---- one process_csv_file call, step by step ----
    variant,          \* "new": consolidate.py, "old": old_consolidate.py
    input,            \* the file being processed
    full,             \* the file before a column was removed from it
    dropped,          \* position of the removed column, 0 when none
    chunk_size,       \* old: CHUNK_SIZE
    may_raise,        \* old: whether a chunk task may raise
    fpc,              \* position in process_csv_file
    col_map,          \* new: col_map
    row_i,            \* new: data rows read so far
    cur,              \* new: fields of the current row
    cve_list,         \* new: identifiers of the current row still to handle
    seen_cves,        \* new: seen_cves
    severity_counts,  \* severity_counts
    details,          \* details / details_acc
    futs,             \* old: state of each submitted chunk future
    merge_order,      \* old: chunk indexes in the order as_completed gave them
    log               \* what was logged

VARIABLES
    \* ---- a whole run ----
    dir_exists,       \* the input directory exists
    dir_entries,      \* the names in it
    mpc,              \* position of main / consolidate_all_csvs
    file_queue,       \* new: file_queue
    unfinished,       \* new: the queue's count of tasks not yet task_done
    results,          \* results
    lock,             \* new: the thread holding lock, 0 when free
    ppc,              \* new: state of each worker process
    tpc,              \* new: position of each worker thread
    tresult,          \* new: each thread's local result
    tasks,            \* old: state of each file's pool future
    output,           \* the blocks of the written workbook, in order
    sheet,            \* the rows of the written worksheet, top to bottom
    writes,           \* how many times the workbook was saved
    plog,             \* what main logged
    \* ---- run_xray.py: one process_component call ----
    folder,           \* the component folder: whether IMAGES exists, its lines
    xpc,              \* position in process_component
    q_images,         \* q_images
    num_threads,      \* num_threads
    threads,          \* how many threads were started
    wpc,              \* position of each worker thread
    image,            \* each worker thread's local image
    gets,             \* history: the thread of every successful get_nowait
    posts,            \* history: every request attempted, in order
    xlog              \* what the process logged, in order

fvars == <<variant, input, full, dropped, chunk_size, may_raise, fpc, col_map, row_i, cur,
           cve_list, seen_cves, severity_counts, details, futs, merge_order, log>>
pvars == <<dir_exists, dir_entries, mpc, file_queue, unfinished, results, lock, ppc,
           tpc, tresult, tasks, output, sheet, writes, plog>>
xvars == <<folder, xpc, q_images, num_threads, threads, wpc, image, gets, posts, xlog>>
vars == <<fvars, pvars, xvars>>

(***************************************************************************)
(* Python str primitives used by the source                                *)
(***************************************************************************)
UpperChars == <<"A","B","C","D","E","F","G","H","I","J","K","L","M",
                "N","O","P","Q","R","S","T","U","V","W","X","Y","Z">>
LowerChars == <<"a","b","c","d","e","f","g","h","i","j","k","l","m",
                "n","o","p","q","r","s","t","u","v","w","x","y","z">>
\* code-point order of the characters the model's strings are built from
AsciiOrder == <<" ", "(", ")", ",", "-", ".", "0", "1", "2", "3", "4", "5",
                "6", "7", "8", "9", ";">> \o UpperChars \o <<"_">> \o LowerChars

IsSpace(c) == c \in {" ", "\t", "\n", "\r"}

LowerMap == [c \in {UpperChars[i] : i \in 1..Len(UpperChars)} |->
                LowerChars[CHOOSE i \in 1..Len(UpperChars) : UpperChars[i] = c]]
LowerChar(c) == IF c \in DOMAIN LowerMap THEN LowerMap[c] ELSE c

\* str.lower()
Lower(s) == [i \in 1..Len(s) |-> LowerChar(s[i])]

\* str.strip()
Strip(s) ==
    LET keep == {i \in 1..Len(s) : ~IsSpace(s[i])}
    IN IF keep = {} THEN <<>>
       ELSE SubSeq(s, CHOOSE i \in keep : \A j \in keep : i <= j,
                      CHOOSE i \in keep : \A j \in keep : i >= j)

\* sub in s
Contains(s, sub) ==
    \E i \in 1..(Len(s) - Len(sub) + 1) : SubSeq(s, i, i + Len(sub) - 1) = sub

\* s.startswith(p)
StartsWith(s, p) == Len(s) >= Len(p) /\ SubSeq(s, 1, Len(p)) = p

\* s.endswith(p)
EndsWith(s, p) == Len(s) >= Len(p) /\ SubSeq(s, Len(s) - Len(p) + 1, Len(s)) = p

\* s.replace(a, b) for one-character a and b
ReplaceChar(s, a, b) == [i \in 1..Len(s) |-> IF s[i] = a THEN b ELSE s[i]]

\* s.split(sep) for a one-character sep: empty pieces are kept
RECURSIVE Split(_, _)
Split(s, sep) ==
    LET at == {i \in 1..Len(s) : s[i] = sep}
    IN IF at = {} THEN <<s>>
       ELSE LET i == CHOOSE k \in at : \A j \in at : k <= j
            IN <<SubSeq(s, 1, i - 1)>> \o Split(SubSeq(s, i + 1, Len(s)), sep)

CodePointMap == [c \in {AsciiOrder[i] : i \in 1..Len(AsciiOrder)} |->
                    CHOOSE i \in 1..Len(AsciiOrder) : AsciiOrder[i] = c]
CodePoint(c) == CodePointMap[c]

\* a < b on str: lexicographic by code point, a proper prefix is smaller
RECURSIVE StrLess(_, _)
StrLess(a, b) ==
    IF b = <<>> THEN FALSE
    ELSE IF a = <<>> THEN TRUE
    ELSE IF a[1] = b[1] THEN StrLess(Tail(a), Tail(b))
    ELSE CodePoint(a[1]) < CodePoint(b[1])

Range(seq) == {seq[i] : i \in 1..Len(seq)}

(***************************************************************************)
(* String literals of the source                                           *)
(***************************************************************************)
K_cves     == <<"c","v","e","s">>
K_cve      == <<"c","v","e">>
K_cve_s    == <<"c","v","e","(","s",")">>
K_severity == <<"s","e","v","e","r","i","t","y">>
K_jfrog    == <<"j","f","r","o","g"," ","s","e","v","e","r","i","t","y">>
K_jfrog_u  == <<"j","f","r","o","g","_","s","e","v","e","r","i","t","y">>
K_jfrog_j  == <<"j","f","r","o","g","s","e","v","e","r","i","t","y">>
K_cvss     == <<"c","v","s","s"," ","v","3">>
K_cvss_u   == <<"c","v","s","s","_","v","3">>
K_cvss_j   == <<"c","v","s","s","v","3">>
K_cwe      == <<"c","w","e">>
K_fix      == <<"f","i","x"," ","v","e","r","s","i","o","n">>
K_fix_u    == <<"f","i","x","_","v","e","r","s","i","o","n">>
K_fix_j    == <<"f","i","x","v","e","r","s","i","o","n">>
K_fix_s    == <<"f","i","x">>
K_critical == <<"c","r","i","t","i","c","a","l">>
K_high     == <<"h","i","g","h">>
K_medium   == <<"m","e","d","i","u","m">>
K_low      == <<"l","o","w">>
K_CVE      == <<"C","V","E","-">>
K_dotcsv   == <<".","c","s","v">>
K_dotCSV   == <<".","C","S","V">>
EmptyStr   == <<>>

\* consolidate.py REQUIRED_COLUMNS
REQUIRED_COLUMNS == <<K_cves, K_severity, K_jfrog, K_cvss, K_cwe, K_fix>>

Tiers == {"Critical", "High", "Medium", "Low"}
\* Counter(): a missing key reads as 0 (counts.get(sev, 0) in write_excel)
ZeroCounts == [t \in Tiers |-> 0]
Bump(counts, t) == IF t \in Tiers THEN [counts EXCEPT ![t] = @ + 1] ELSE counts
SumCounts(counts) ==
    counts["Critical"] + counts["High"] + counts["Medium"] + counts["Low"]

\* the chain with its tests in the opposite order
KeywordTier_LowFirst(sev_lower) ==
    IF Contains(sev_lower, K_low) THEN "Low"
    ELSE IF Contains(sev_lower, K_medium) THEN "Medium"
    ELSE IF Contains(sev_lower, K_high) THEN "High"
    ELSE IF Contains(sev_lower, K_critical) THEN "Critical"
    ELSE "None"

\* the if/elif chain of substring tests on one lower-cased string
KeywordTier(sev_lower) ==
    IF Contains(sev_lower, K_critical) THEN "Critical"
    ELSE IF Contains(sev_lower, K_high) THEN "High"
    ELSE IF Contains(sev_lower, K_medium) THEN "Medium"
    ELSE IF Contains(sev_lower, K_low) THEN "Low"
    ELSE "None"

(***************************************************************************)
(* consolidate.py: utilities                                               *)
(***************************************************************************)
\* {h.strip().lower(): idx for idx, h in enumerate(headers)}: a later header
\* with the same normalised name overwrites an earlier one
normalize_headers(headers) ==
    LET norm == [i \in 1..Len(headers) |-> Lower(Strip(headers[i]))]
    IN [k \in Range(norm) |->
          (CHOOSE i \in 1..Len(headers) :
              norm[i] = k /\ \A j \in 1..Len(headers) : norm[j] = k => j <= i) - 1]

RECURSIVE KeepCves(_)
KeepCves(tokens) ==
    IF tokens = <<>> THEN <<>>
    ELSE (IF StartsWith(Strip(Head(tokens)), K_CVE)
          THEN <<Strip(Head(tokens))>> ELSE <<>>) \o KeepCves(Tail(tokens))

split_cves(raw) ==
    IF raw = <<>> THEN <<>>
    ELSE KeepCves(Split(ReplaceChar(raw, ";", ","), ","))

\* a slip: a missing column defaults to index -1, Python's last cell
safe_get_LastCell(row, cmap, col_name) ==
    IF col_name \in DOMAIN cmap
    THEN (IF cmap[col_name] < Len(row) THEN Strip(row[cmap[col_name] + 1]) ELSE EmptyStr)
    ELSE (IF Len(row) > 0 THEN Strip(row[Len(row)]) ELSE EmptyStr)

\* idx = cmap.get(col_name); row[idx].strip() if present and in range
safe_get(row, cmap, col_name) ==
    IF col_name \in DOMAIN cmap /\ cmap[col_name] < Len(row)
    THEN Strip(row[cmap[col_name] + 1])
    ELSE EmptyStr

\* the six fields read from one row (lines 85-92)
RowFields(row, cmap) ==
    [raw_cves  |-> safe_get(row, cmap, K_cves),
     severity  |-> safe_get(row, cmap, K_severity),
     jfrog_sev |-> safe_get(row, cmap, K_jfrog),
     cvss      |-> safe_get(row, cmap, K_cvss),
     cwe       |-> safe_get(row, cmap, K_cwe),
     fix_ver   |-> safe_get(row, cmap, K_fix)]

\* lines 100-108: only the primary severity is tested
NewTier(fields) == KeywordTier(Lower(fields.severity))

DetailOf(cve, fields) ==
    <<cve, fields.severity, fields.jfrog_sev, fields.cvss, fields.cwe, fields.fix_ver>>

(***************************************************************************)
(* A scan report on disk.  open_ok = FALSE: the file cannot be opened or   *)
(* its header cannot be decoded.  header = <<>>: the file is empty.        *)
(* bad = k > 0: reading data row k raises (decode or parse error).         *)
(***************************************************************************)
MkFile(open_ok, header, rows, bad) ==
    [open_ok |-> open_ok, header |-> header, rows |-> rows, bad |-> bad]

\* rows the reader yields before it raises or is exhausted
ReadableRows(file) ==
    IF file.bad > 0 /\ file.bad <= Len(file.rows)
    THEN SubSeq(file.rows, 1, file.bad - 1) ELSE file.rows

ReaderRaises(file) == file.bad > 0 /\ file.bad <= Len(file.rows)

EmptyAcc == [seen |-> {}, counts |-> ZeroCounts, details |-> <<>>]

(***************************************************************************)
(* consolidate.py: process_csv_file                                        *)
(***************************************************************************)
\* lines 95-117 for one identifier of the row
ProcessCve(acc, cve, fields) ==
    IF cve \in acc.seen THEN acc
    ELSE [seen    |-> acc.seen \cup {cve},
          counts  |-> Bump(acc.counts, NewTier(fields)),
          details |-> Append(acc.details, DetailOf(cve, fields))]

RECURSIVE ProcessCves(_, _, _)
ProcessCves(acc, cves, fields) ==
    IF cves = <<>> THEN acc
    ELSE ProcessCves(ProcessCve(acc, Head(cves), fields), Tail(cves), fields)

\* lines 84-117 for one row
ProcessRow(acc, row, cmap) ==
    LET fields == RowFields(row, cmap)
    IN ProcessCves(acc, split_cves(fields.raw_cves), fields)

RECURSIVE ProcessRows(_, _, _)
ProcessRows(acc, rows, cmap) ==
    IF rows = <<>> THEN acc
    ELSE ProcessRows(ProcessRow(acc, Head(rows), cmap), Tail(rows), cmap)

\* the warnings and errors process_csv_file logs for a file
MissingColumns(header) ==
    {c \in Range(REQUIRED_COLUMNS) : c \notin DOMAIN normalize_headers(header)}

LogOf(filename, file) ==
    IF ~file.open_ok THEN {[level |-> "error", what |-> "failed", file |-> filename, col |-> EmptyStr]}
    ELSE IF file.header = <<>>
    THEN {[level |-> "warning", what |-> "empty", file |-> filename, col |-> EmptyStr]}
    ELSE {[level |-> "warning", what |-> "missing", file |-> filename, col |-> c] :
             c \in MissingColumns(file.header)}
         \cup (IF ReaderRaises(file)
               THEN {[level |-> "error", what |-> "failed", file |-> filename, col |-> EmptyStr]}
               ELSE {})

\* the (filename, severity_counts, details) tuple returned at line 76 or 122;
\* an exception leaves what was accumulated before it
process_csv_file(filename, file) ==
    LET acc == IF ~file.open_ok \/ file.header = <<>> THEN EmptyAcc
               ELSE ProcessRows(EmptyAcc, ReadableRows(file),
                                normalize_headers(file.header))
    IN [filename |-> filename, counts |-> acc.counts, details |-> acc.details]

(***************************************************************************)
(* old_consolidate.py: helpers and process_csv_file                        *)
(***************************************************************************)
None == <<"<None>">>

\* {c.lower().strip(): c for c in cols}: normalised name -> actual name
normalize_cols(cols) ==
    LET norm == [i \in 1..Len(cols) |-> Strip(Lower(cols[i]))]
    IN [k \in Range(norm) |->
          cols[CHOOSE i \in 1..Len(cols) :
                  norm[i] = k /\ \A j \in 1..Len(cols) : norm[j] = k => j <= i]]

CanonicalKeys ==
    <<"cves", "severity", "jfrog_severity", "cvss_v3", "cwe", "fix_version">>

\* needed_keys (lines 100-107)
needed_keys ==
    [k \in Range(CanonicalKeys) |->
        CASE k = "cves"           -> <<K_cves, K_cve, K_cve_s>>
          [] k = "severity"       -> <<K_severity>>
          [] k = "jfrog_severity" -> <<K_jfrog, K_jfrog_u, K_jfrog_j>>
          [] k = "cvss_v3"        -> <<K_cvss, K_cvss_u, K_cvss_j>>
          [] k = "cwe"            -> <<K_cwe>>
          [] k = "fix_version"    -> <<K_fix, K_fix_u, K_fix_j, K_fix_s>>]

\* lines 110-118: the first candidate the file has; None when there is none
RECURSIVE FirstFound(_, _)
FirstFound(candidates, cmap) ==
    IF candidates = <<>> THEN None
    ELSE IF Lower(Head(candidates)) \in DOMAIN cmap
            /\ cmap[Lower(Head(candidates))] # <<>>
         THEN cmap[Lower(Head(candidates))]
         ELSE FirstFound(Tail(candidates), cmap)

mapped_cols(cmap) ==
    [k \in Range(CanonicalKeys) |-> FirstFound(needed_keys[k], cmap)]

\* a slip: without the pd.isna test a missing cell reads as the text "nan"
CellOf_NoIsna(row, header, real) ==
    IF \E i \in 1..Len(header) : header[i] = real
    THEN LET i == CHOOSE k \in 1..Len(header) : header[k] = real
         IN IF i <= Len(row) /\ row[i] # <<>> THEN row[i] ELSE <<"n", "a", "n">>
    ELSE <<>>

\* df_row.get(real, ""): the cell under the column named real; a short row
\* and an empty cell read as NaN
CellOf(row, header, real) ==
    IF \E i \in 1..Len(header) : header[i] = real
    THEN LET i == CHOOSE k \in 1..Len(header) : header[k] = real
         IN IF i <= Len(row) THEN row[i] ELSE <<>>
    ELSE <<>>

\* old safe_get (lines 58-66): key is looked up lower-cased but not stripped
old_safe_get(row, header, cmap, key) ==
    IF Lower(key) \in DOMAIN cmap /\ cmap[Lower(key)] # <<>>
    THEN Strip(CellOf(row, header, cmap[Lower(key)]))
    ELSE EmptyStr

\* resolved.get(k) or ""
KeyOrEmpty(resolved, k) == IF resolved[k] = None THEN EmptyStr ELSE resolved[k]

\* lines 146-151: the six fields of one row, read under the columns resolved
\* for the chunk
OldRowFields(row, header, cols_lower, resolved) ==
    LET get(k) == old_safe_get(row, header, cols_lower, KeyOrEmpty(resolved, k))
    IN [raw_cves  |-> get("cves"),
        severity  |-> get("severity"),
        jfrog_sev |-> get("jfrog_severity"),
        cvss      |-> get("cvss_v3"),
        cwe       |-> get("cwe"),
        fix_ver   |-> get("fix_version")]

\* lines 153-174: primary severity, else the JFrog severity
OldTier(fields) ==
    LET t == KeywordTier(Lower(Strip(fields.severity)))
    IN IF t # "None" THEN t ELSE KeywordTier(Lower(Strip(fields.jfrog_sev)))

\* lines 144-176: one detail tuple and at most one count per row
RECURSIVE ChunkRows(_, _, _, _)
ChunkRows(rows, header, cols_lower, resolved) ==
    IF rows = <<>> THEN [details |-> <<>>, counts |-> ZeroCounts]
    ELSE LET fields == OldRowFields(Head(rows), header, cols_lower, resolved)
             tier   == OldTier(fields)
             rest   == ChunkRows(Tail(rows), header, cols_lower, resolved)
         IN [details |-> <<DetailOf(fields.raw_cves, fields)>> \o rest.details,
             counts  |-> [t \in Tiers |-> rest.counts[t] + (IF tier = t THEN 1 ELSE 0)]]

\* process_chunk (lines 125-178): the columns are resolved once per chunk
process_chunk(rows, header) ==
    LET cols_lower == normalize_cols(header)
        resolved   == mapped_cols(cols_lower)
    IN ChunkRows(rows, header, cols_lower, resolved)

\* pd.read_csv(chunksize=n): consecutive slices of n rows
RECURSIVE Chunks(_, _)
Chunks(rows, n) ==
    IF rows = <<>> THEN <<>>
    ELSE IF Len(rows) <= n THEN <<rows>>
    ELSE <<SubSeq(rows, 1, n)>> \o Chunks(SubSeq(rows, n + 1, Len(rows)), n)

AddCounts(a, b) == [t \in Tiers |-> a[t] + b[t]]


(***************************************************************************)
(* Inputs                                                                  *)
(***************************************************************************)
MaxRows == 2
MaxChunkSize == 2

FileName == <<"a", ".", "c", "s", "v">>

hFull  == <<K_cves, K_severity, K_jfrog, K_cvss, K_cwe, K_fix>>
\* the identifier column under an accepted alias, the others in another case
hAlias == << <<"C","V","E","(","s",")">>, <<"S","e","v","e","r","i","t","y">>,
             <<"J","F","r","o","g"," ","S","e","v","e","r","i","t","y">>,
             <<"C","V","S","S"," ","v","3">>, <<"C","W","E">>,
             <<"F","i","x"," ","V","e","r","s","i","o","n">> >>
HeaderChoices == {hFull, hAlias}

V_cve1 == <<"C","V","E","-","1">>
V_cve2 == <<"C","V","E","-","2">>
\* a multi-keyword severity; a repeat of CVE-1 with another severity; a cell
\* with two identifiers and a malformed token, classified only by the
\* secondary severity; a row shorter than the header
RowChoices ==
    { <<V_cve1, <<"L","o","w","-","H","I","G","H">>, <<"m","e","d","i","u","m">>,
        <<"7">>, <<>>, <<"1",".","2">> >>,
      <<V_cve1, <<"C","r","i","t","i","c","a","l">>, <<>>, <<"9">>,
        <<"C","W","E","-","7">>, <<>> >>,
      << <<" ","C","V","E","-","2",";"," ","x",",","C","V","E","-","1">>,
         <<>>, <<"H","i","g","h">>, <<>>, <<>>, <<"2">> >>,
      <<V_cve2>> }

RECURSIVE SeqsUpTo(_, _)
SeqsUpTo(S, n) ==
    IF n = 0 THEN {<<>>}
    ELSE LET shorter == SeqsUpTo(S, n - 1)
         IN shorter \cup {Append(q, x) : q \in {r \in shorter : Len(r) = n - 1}, x \in S}

\* seq without its k-th element (unchanged when it has none)
RemoveAt(seq, k) ==
    IF k < 1 \/ k > Len(seq) THEN seq
    ELSE SubSeq(seq, 1, k - 1) \o SubSeq(seq, k + 1, Len(seq))

\* the same file written without its k-th column
DropCol(file, k) ==
    [file EXCEPT !.header = RemoveAt(@, k),
                 !.rows = [i \in 1..Len(@) |-> RemoveAt(@[i], k)]]

\* well-formed files, files whose last row cannot be read, an unopenable and
\* an empty file
GoodFiles ==
    {MkFile(TRUE, h, rows, 0) : h \in HeaderChoices, rows \in SeqsUpTo(RowChoices, MaxRows)}
BadFiles ==
    {MkFile(TRUE, hFull, rows, Len(rows)) : rows \in SeqsUpTo(RowChoices, MaxRows) \ {<<>>}}
        \cup {MkFile(FALSE, hFull, <<>>, 0), MkFile(TRUE, <<>>, <<>>, 0)}

NoFields == [raw_cves |-> EmptyStr, severity |-> EmptyStr, jfrog_sev |-> EmptyStr,
             cvss |-> EmptyStr, cwe |-> EmptyStr, fix_ver |-> EmptyStr]

LogEntry(level, what, col) ==
    [level |-> level, what |-> what, file |-> FileName, col |-> col]

\* run_xray.py is not running
XrayOff ==
    /\ folder = [has_images |-> FALSE, lines |-> <<>>] /\ xpc = "off"
    /\ q_images = <<>> /\ num_threads = 0 /\ threads = 0
    /\ wpc = <<>> /\ image = <<>> /\ gets = <<>> /\ posts = <<>> /\ xlog = <<>>

(***************************************************************************)
(* SpecFile: one call of process_csv_file, either variant                  *)
(***************************************************************************)
InitFile ==
    /\ variant \in {"new", "old"}
    /\ \/ /\ full \in GoodFiles
          /\ dropped \in (IF variant = "new" /\ full.header = hFull
                          THEN 0..Len(hFull) ELSE {0})
          /\ input = DropCol(full, dropped)
       \/ /\ full \in BadFiles
          /\ dropped = 0
          /\ input = full
    /\ chunk_size \in (IF variant = "old" THEN 1..MaxChunkSize ELSE {1})
    /\ may_raise \in (IF variant = "old" THEN BOOLEAN ELSE {FALSE})
    /\ fpc = "start"
    /\ col_map = <<>>
    /\ row_i = 0
    /\ cur = NoFields
    /\ cve_list = <<>>
    /\ seen_cves = {}
    /\ severity_counts = ZeroCounts
    /\ details = <<>>
    /\ futs = <<>>
    /\ merge_order = <<>>
    /\ log = {}
    /\ dir_exists = FALSE /\ dir_entries = {} /\ mpc = "off"
    /\ file_queue = <<>> /\ unfinished = 0 /\ results = <<>> /\ lock = 0
    /\ ppc = <<>> /\ tpc = <<>> /\ tresult = <<>> /\ tasks = <<>>
    /\ output = <<>> /\ sheet = <<>> /\ writes = 0 /\ plog = {}
    /\ XrayOff

\* ---- consolidate.py process_csv_file ----
\* lines 70-82: open, read the header, warn about missing columns
NewOpen ==
    /\ variant = "new" /\ fpc = "start"
    /\ IF ~input.open_ok
       THEN /\ log' = log \cup {LogEntry("error", "failed", EmptyStr)}
            /\ fpc' = "ret"
            /\ UNCHANGED col_map
       ELSE IF input.header = <<>>
       THEN /\ log' = log \cup {LogEntry("warning", "empty", EmptyStr)}
            /\ fpc' = "ret"
            /\ UNCHANGED col_map
       ELSE /\ col_map' = normalize_headers(input.header)
            /\ log' = log \cup {LogEntry("warning", "missing", c) :
                                   c \in MissingColumns(input.header)}
            /\ fpc' = "row"
    /\ UNCHANGED <<xvars, pvars, variant, input, full, dropped, chunk_size, may_raise, row_i, cur,
                   cve_list, seen_cves, severity_counts, details, futs, merge_order>>

\* lines 84-92: fetch the next row and its fields, or leave the loop
NewNextRow ==
    /\ variant = "new" /\ fpc = "row"
    /\ IF row_i = Len(input.rows)
       THEN /\ fpc' = "ret"
            /\ UNCHANGED <<row_i, cur, cve_list, log>>
       ELSE IF input.bad = row_i + 1
       THEN /\ fpc' = "ret"
            /\ log' = log \cup {LogEntry("error", "failed", EmptyStr)}
            /\ UNCHANGED <<row_i, cur, cve_list>>
       ELSE LET fields == RowFields(input.rows[row_i + 1], col_map)
            IN /\ row_i' = row_i + 1
               /\ cur' = fields
               /\ cve_list' = split_cves(fields.raw_cves)
               /\ fpc' = "cve"
               /\ UNCHANGED log
    /\ UNCHANGED <<xvars, pvars, variant, input, full, dropped, chunk_size, may_raise, col_map,
                   seen_cves, severity_counts, details, futs, merge_order>>

\* lines 94-98: next identifier of the row; a seen one is skipped
NewNextCve ==
    /\ variant = "new" /\ fpc = "cve"
    /\ IF cve_list = <<>>
       THEN /\ fpc' = "row"
            /\ UNCHANGED <<cve_list, seen_cves>>
       ELSE IF Head(cve_list) \in seen_cves
       THEN /\ cve_list' = Tail(cve_list)
            /\ UNCHANGED <<fpc, seen_cves>>
       ELSE /\ seen_cves' = seen_cves \cup {Head(cve_list)}
            /\ fpc' = "count"
            /\ UNCHANGED cve_list
    /\ UNCHANGED <<xvars, pvars, variant, input, full, dropped, chunk_size, may_raise, col_map, row_i, cur,
                   severity_counts, details, futs, merge_order, log>>

\* lines 100-108
NewCount ==
    /\ variant = "new" /\ fpc = "count"
    /\ severity_counts' = Bump(severity_counts, NewTier(cur))
    /\ fpc' = "append"
    /\ UNCHANGED <<xvars, pvars, variant, input, full, dropped, chunk_size, may_raise, col_map, row_i, cur,
                   cve_list, seen_cves, details, futs, merge_order, log>>

\* lines 110-117
NewAppend ==
    /\ variant = "new" /\ fpc = "append"
    /\ details' = Append(details, DetailOf(Head(cve_list), cur))
    /\ cve_list' = Tail(cve_list)
    /\ fpc' = "cve"
    /\ UNCHANGED <<xvars, pvars, variant, input, full, dropped, chunk_size, may_raise, col_map, row_i, cur,
                   seen_cves, severity_counts, futs, merge_order, log>>

\* ---- old_consolidate.py process_csv_file ----
OldChunks == Chunks(input.rows, chunk_size)

\* lines 85-96: header read, and the full-read fallback, both fail on a file
\* that cannot be opened or is empty
OldOpen ==
    /\ variant = "old" /\ fpc = "start"
    /\ IF ~input.open_ok \/ input.header = <<>>
       THEN /\ log' = log \cup {LogEntry("warning", "header", EmptyStr),
                                LogEntry("error", "failed", EmptyStr)}
            /\ fpc' = "ret"
       ELSE /\ fpc' = "submit"
            /\ UNCHANGED log
    /\ UNCHANGED <<xvars, pvars, variant, input, full, dropped, chunk_size, may_raise, col_map, row_i, cur,
                   cve_list, seen_cves, severity_counts, details, futs, merge_order>>

\* lines 192-196: read the next chunk and submit it; a row that cannot be read
\* raises out of the loop, and the full-read fallback (lines 207-218) raises
\* on the same row
OldSubmit ==
    /\ variant = "old" /\ fpc = "submit"
    /\ LET n == Len(futs) + 1
       IN IF n > Len(OldChunks)
          THEN /\ fpc' = "merge"
               /\ UNCHANGED <<futs, log>>
          ELSE IF input.bad > (n - 1) * chunk_size /\ input.bad <= n * chunk_size
          THEN /\ fpc' = "ret"
               /\ log' = log \cup {LogEntry("warning", "chunked", EmptyStr),
                                   LogEntry("error", "failed", EmptyStr)}
               /\ UNCHANGED futs
          ELSE /\ futs' = Append(futs, [state |-> "queued", exc |-> FALSE,
                                           details |-> <<>>, counts |-> ZeroCounts])
               /\ UNCHANGED <<fpc, log>>
    /\ UNCHANGED <<xvars, pvars, variant, input, full, dropped, chunk_size, may_raise, col_map, row_i, cur,
                   cve_list, seen_cves, severity_counts, details, merge_order>>

\* a pool thread runs a submitted chunk task: process_chunk returns, or raises.
\* The task reads only its own chunk and the resolved columns, so its run is
\* one step; tasks finish in any order.
OldChunkRun(i) ==
    /\ variant = "old" /\ fpc \in {"submit", "merge"}
    /\ i \in 1..Len(futs) /\ futs[i].state = "queued"
    /\ \/ LET r == process_chunk(OldChunks[i], input.header)
          IN futs' = [futs EXCEPT ![i] = [state |-> "done", exc |-> FALSE,
                                          details |-> r.details, counts |-> r.counts]]
       \/ may_raise /\ futs' = [futs EXCEPT ![i].state = "raised", ![i].exc = TRUE]
    /\ UNCHANGED <<xvars, pvars, variant, input, full, dropped, chunk_size, may_raise, fpc, col_map,
                   row_i, cur, cve_list, seen_cves, severity_counts, details,
                   merge_order, log>>

\* the merge loop if a raised chunk task discarded what was merged before it
OldMerge_DropOnRaise(i) ==
    /\ variant = "old" /\ fpc = "merge"
    /\ i \in 1..Len(futs) /\ futs[i].state \in {"done", "raised"}
    /\ merge_order' = Append(merge_order, i)
    /\ IF futs[i].state = "done"
       THEN /\ details' = details \o futs[i].details
            /\ severity_counts' = AddCounts(severity_counts, futs[i].counts)
            /\ UNCHANGED log
       ELSE /\ log' = log \cup {LogEntry("warning", "chunk", EmptyStr)}
            /\ details' = <<>>
            /\ severity_counts' = ZeroCounts
    /\ futs' = [futs EXCEPT ![i].state = "merged"]
    /\ UNCHANGED <<xvars, pvars, variant, input, full, dropped, chunk_size, may_raise, fpc, col_map,
                   row_i, cur, cve_list, seen_cves>>

\* lines 198-205: as_completed hands over some finished future; its result is
\* appended, or its exception logged
OldMerge(i) ==
    /\ variant = "old" /\ fpc = "merge"
    /\ i \in 1..Len(futs) /\ futs[i].state \in {"done", "raised"}
    /\ merge_order' = Append(merge_order, i)
    /\ IF futs[i].state = "done"
       THEN /\ details' = details \o futs[i].details
            /\ severity_counts' = AddCounts(severity_counts, futs[i].counts)
            /\ UNCHANGED log
       ELSE /\ log' = log \cup {LogEntry("warning", "chunk", EmptyStr)}
            /\ UNCHANGED <<details, severity_counts>>
    /\ futs' = [futs EXCEPT ![i].state = "merged"]
    /\ UNCHANGED <<xvars, pvars, variant, input, full, dropped, chunk_size, may_raise, fpc, col_map,
                   row_i, cur, cve_list, seen_cves>>

\* lines 231-232
OldReturn ==
    /\ variant = "old" /\ fpc = "merge"
    /\ \A i \in 1..Len(futs) : futs[i].state = "merged"
    /\ fpc' = "ret"
    /\ UNCHANGED <<xvars, pvars, variant, input, full, dropped, chunk_size, may_raise, col_map, row_i, cur,
                   cve_list, seen_cves, severity_counts, details, futs, merge_order, log>>

NextFile ==
    \/ NewOpen \/ NewNextRow \/ NewNextCve \/ NewCount \/ NewAppend
    \/ OldOpen \/ OldSubmit \/ OldReturn
    \/ \E i \in 1..MaxRows : OldChunkRun(i) \/ OldMerge(i)

SpecFile == InitFile /\ [][NextFile]_vars

(***************************************************************************)
(* old_consolidate.py process_csv_file as a whole: the results it can      *)
(* return, one per order in which as_completed hands over the chunks       *)
(***************************************************************************)
RECURSIVE Perms(_)
Perms(S) ==
    IF S = {} THEN {<<>>}
    ELSE UNION {{<<x>> \o q : q \in Perms(S \ {x})} : x \in S}

RECURSIVE MergeChunks(_, _, _)
MergeChunks(order, chunks, header) ==
    IF order = <<>> THEN [counts |-> ZeroCounts, details |-> <<>>]
    ELSE LET r    == process_chunk(chunks[Head(order)], header)
             rest == MergeChunks(Tail(order), chunks, header)
         IN [counts |-> AddCounts(r.counts, rest.counts),
             details |-> r.details \o rest.details]

\* the chunks whose task returned: all of them unless tasks may raise
old_process_csv_file(filename, file, cs, raising) ==
    IF ~file.open_ok \/ file.header = <<>> \/ ReaderRaises(file)
    THEN {[filename |-> filename, counts |-> ZeroCounts, details |-> <<>>]}
    ELSE LET chunks == Chunks(file.rows, cs)
             all    == 1..Len(chunks)
             done   == IF raising THEN SUBSET all ELSE {all}
         IN {[filename |-> filename,
              counts   |-> MergeChunks(o, chunks, file.header).counts,
              details  |-> MergeChunks(o, chunks, file.header).details] :
                o \in UNION {Perms(S) : S \in done}}

OldRunIsOperator ==
    (variant = "old" /\ fpc = "ret") =>
        [filename |-> FileName, counts |-> severity_counts, details |-> details]
            \in old_process_csv_file(FileName, input, chunk_size, may_raise)

(***************************************************************************)
(* A whole run: the directory, the workers, the written workbook           *)
(***************************************************************************)
MaxFiles == 2
ThreadsPerProcess == 2
\* consolidate.py MAX_PROCESSES = min(4, cpu_count()), on a two-core host
MAX_PROCESSES == 2

NumThreads == MAX_PROCESSES * ThreadsPerProcess
Threads == 1..NumThreads
Procs == 1..MAX_PROCESSES
ThreadsOf(p) == {t \in Threads : (t - 1) \div ThreadsPerProcess = p - 1}

N_b     == <<"b", ".", "c", "s", "v">>
N_A     == <<"A", ".", "C", "S", "V">>
N_c     == <<"c", ".", "c", "s", "v">>
N_d     == <<"d", ".", "c", "s", "v">>
N_notes == <<"n", "o", "t", "e", "s", ".", "t", "x", "t">>
CsvNames == <<N_A, N_b, N_c, N_d>>

R_low_high == <<V_cve1, <<"L","o","w","-","H","I","G","H">>, <<"m","e","d","i","u","m">>,
                <<"7">>, <<>>, <<"1",".","2">> >>
R_critical == <<V_cve1, <<"C","r","i","t","i","c","a","l">>, <<>>, <<"9">>,
                <<"C","W","E","-","7">>, <<>> >>
R_two_ids  == << <<" ","C","V","E","-","2",";"," ","x",",","C","V","E","-","1">>,
                 <<>>, <<"H","i","g","h">>, <<>>, <<>>, <<"2">> >>

\* what each name holds: a report with a repeated identifier, a file that
\* cannot be opened, a second report that names the same identifier, an
\* empty file
FileOf(name) ==
    CASE name = N_b -> MkFile(TRUE, hFull, <<R_low_high, R_critical>>, 0)
      [] name = N_A -> MkFile(FALSE, hFull, <<>>, 0)
      [] name = N_c -> MkFile(TRUE, hFull, <<R_critical, R_two_ids>>, 0)
      [] OTHER      -> MkFile(TRUE, <<>>, <<>>, 0)

\* an empty directory, or some of MaxFiles neighbouring reports beside a file
\* that is not a report
DirChoices ==
    LET window(k) == {CsvNames[i] : i \in k..(k + MaxFiles - 1)}
        windows == {window(k) : k \in 1..(Len(CsvNames) - MaxFiles + 1)}
    IN {{}} \cup {S \cup {N_notes} : S \in UNION {SUBSET w : w \in windows}}

\* sorted(): ascending by code point
RECURSIVE SortNames(_)
SortNames(S) ==
    IF S = {} THEN <<>>
    ELSE LET m == CHOOSE x \in S : \A y \in S \ {x} : StrLess(x, y)
         IN <<m>> \o SortNames(S \ {m})

\* sorted(results): tuples compare by their first component, the filename
RECURSIVE SortResults(_)
SortResults(rs) ==
    IF rs = <<>> THEN <<>>
    ELSE LET i == CHOOSE k \in 1..Len(rs) :
                     \A j \in 1..Len(rs) :
                        j # k => /\ ~StrLess(rs[j].filename, rs[k].filename)
                                 /\ (rs[j].filename = rs[k].filename => k < j)
         IN <<rs[i]>> \o SortResults(RemoveAt(rs, i))

(***************************************************************************)
(* The worksheet: a sequence of rows, a row a sequence of cells.  A row    *)
(* the writer only steps over is the empty row.  A cell holds text or a    *)
(* number.                                                                 *)
(***************************************************************************)
Text(s)   == [kind |-> "text", text |-> s, num |-> 0]
Number(n) == [kind |-> "number", text |-> <<>>, num |-> n]
BlankRow  == <<>>

\* the severity names of the tally rows, consolidate.py line 169
TallyNames == <<<<"C","r","i","t","i","c","a","l">>, <<"H","i","g","h">>,
                <<"M","e","d","i","u","m">>, <<"L","o","w">>>>
\* the Counter key each tally row reads
TallyKeys == <<"Critical", "High", "Medium", "Low">>

\* headers, consolidate.py line 176 and old_consolidate.py line 301
ColumnHeaders ==
    <<<<"C","V","E","s">>,
      <<"S","e","v","e","r","i","t","y">>,
      <<"J","f","r","o","g"," ","S","e","v","e","r","i","t","y">>,
      <<"C","V","S","S"," ","v","3">>,
      <<"C","w","e">>,
      <<"F","i","x"," ","V","e","r","s","i","o","n">>>>
HeaderRow == [c \in 1..Len(ColumnHeaders) |-> Text(ColumnHeaders[c])]

\* one worksheet row per detail tuple, one cell per field
DetailRow(d) == [c \in 1..Len(d) |-> Text(d[c])]

\* consolidate.py lines 166-187: the rows of one block
render_block(r) ==
    <<<<Text(r.filename)>>>>
    \o [k \in 1..Len(TallyNames) |-> <<Text(TallyNames[k]), Number(r.counts[TallyKeys[k]])>>]
    \o <<BlankRow>>
    \o <<HeaderRow>>
    \o [i \in 1..Len(r.details) |-> DetailRow(r.details[i])]
    \o <<BlankRow, BlankRow>>

RECURSIVE render_blocks(_)
render_blocks(rs) ==
    IF rs = <<>> THEN <<>> ELSE render_block(Head(rs)) \o render_blocks(Tail(rs))

\* str() of a non-negative integer, as the f-string formats it
RECURSIVE Digits(_)
Digits(n) ==
    LET chars == <<"0","1","2","3","4","5","6","7","8","9">>
    IN IF n < 10 THEN <<chars[n + 1]>>
       ELSE Digits(n \div 10) \o <<chars[(n % 10) + 1]>>

\* old_consolidate.py line 296
counts_text(counts) ==
    <<"C","r","i","t","i","c","a","l",":"," ">> \o Digits(counts["Critical"])
    \o <<" "," "," "," ","H","i","g","h",":"," ">> \o Digits(counts["High"])
    \o <<" "," "," "," ","M","e","d","i","u","m",":"," ">> \o Digits(counts["Medium"])
    \o <<" "," "," "," ","L","o","w",":"," ">> \o Digits(counts["Low"])

\* old_consolidate.py lines 283-315: the rows of one block
old_render_block(r) ==
    <<<<Text(<<"F","i","l","e",":"," ">> \o r.filename)>>>>
    \o <<<<Text(counts_text(r.counts))>>>>
    \o <<HeaderRow>>
    \o [i \in 1..Len(r.details) |-> DetailRow(r.details[i])]
    \o <<BlankRow>>

RECURSIVE old_render_blocks(_)
old_render_blocks(rs) ==
    IF rs = <<>> THEN <<>> ELSE old_render_block(Head(rs)) \o old_render_blocks(Tail(rs))

Init ==
    /\ variant \in {"new", "old"}
    /\ dir_exists \in BOOLEAN
    /\ dir_entries \in (IF dir_exists THEN DirChoices ELSE {{}})
    /\ chunk_size \in (IF variant = "old" THEN 1..MaxChunkSize ELSE {1})
    /\ may_raise \in (IF variant = "old" THEN BOOLEAN ELSE {FALSE})
    /\ mpc = "start"
    /\ file_queue = <<>> /\ unfinished = 0 /\ results = <<>> /\ lock = 0
    /\ ppc = [p \in Procs |-> "unstarted"]
    /\ tpc = [t \in Threads |-> "unstarted"]
    /\ tresult = [t \in Threads |-> <<>>]
    /\ tasks = <<>>
    /\ output = <<>> /\ sheet = <<>> /\ writes = 0 /\ plog = {}
    /\ XrayOff
    /\ input = MkFile(FALSE, <<>>, <<>>, 0) /\ full = input /\ dropped = 0
    /\ fpc = "off" /\ col_map = <<>> /\ row_i = 0 /\ cur = NoFields
    /\ cve_list = <<>> /\ seen_cves = {} /\ severity_counts = ZeroCounts
    /\ details = <<>> /\ futs = <<>> /\ merge_order = <<>> /\ log = {}

\* ---- consolidate.py ----
\* f.lower().endswith(".csv")
IsCsvName(f) == EndsWith(Lower(f), K_dotcsv)

\* a slip: the warning about no CSV file is not followed by return
MainCheck_NoReturn ==
    /\ variant = "new" /\ mpc = "start"
    /\ IF ~dir_exists
       THEN /\ plog' = plog \cup {"error: input directory not found"}
            /\ mpc' = "returned"
            /\ UNCHANGED <<file_queue, unfinished>>
       ELSE /\ file_queue' \in Perms({f \in dir_entries : IsCsvName(f)})
            /\ unfinished' = Len(file_queue')
            /\ mpc' = "spawn"
            /\ plog' = IF file_queue' = <<>>
                       THEN plog \cup {"warning: no CSV files found"} ELSE plog
    /\ UNCHANGED <<xvars, fvars, dir_exists, dir_entries, results, lock, ppc, tpc, tresult,
                   tasks, output, sheet, writes>>

\* main, lines 195-215: no directory or no CSV file ends the run; otherwise
\* the files are queued in the order os.listdir gave them
MainCheck ==
    /\ variant = "new" /\ mpc = "start"
    /\ IF ~dir_exists
       THEN /\ plog' = plog \cup {"error: input directory not found"}
            /\ mpc' = "returned"
            /\ UNCHANGED <<file_queue, unfinished>>
       ELSE IF {f \in dir_entries : IsCsvName(f)} = {}
       THEN /\ plog' = plog \cup {"warning: no CSV files found"}
            /\ mpc' = "returned"
            /\ UNCHANGED <<file_queue, unfinished>>
       ELSE /\ file_queue' \in Perms({f \in dir_entries : IsCsvName(f)})
            /\ unfinished' = Len(file_queue')
            /\ mpc' = "spawn"
            /\ UNCHANGED plog
    /\ UNCHANGED <<xvars, fvars, dir_exists, dir_entries, results, lock, ppc, tpc, tresult,
                   tasks, output, sheet, writes>>

\* lines 217-224 and process_worker lines 143-151: every process is started
\* and starts its threads (a started thread that has not run yet is not
\* distinguishable from one not yet started)
MainStart ==
    /\ variant = "new" /\ mpc = "spawn"
    /\ ppc' = [p \in Procs |-> "running"]
    /\ tpc' = [t \in Threads |-> "get"]
    /\ mpc' = "join"
    /\ UNCHANGED <<xvars, fvars, dir_exists, dir_entries, file_queue, unfinished, results, lock,
                   tresult, tasks, output, sheet, writes, plog>>

\* what process_csv_file returns for each file the directory can hold
\* (consolidate.py, line 133)
NewResultOf ==
    [f \in {CsvNames[i] : i \in 1..Len(CsvNames)} |-> process_csv_file(f, FileOf(f))]

\* thread_worker lines 128-133: take a path or return; process the file
ThreadGet(t) ==
    /\ variant = "new" /\ tpc[t] = "get"
    /\ IF file_queue = <<>>
       THEN /\ tpc' = [tpc EXCEPT ![t] = "done"]
            /\ UNCHANGED <<file_queue, tresult>>
       ELSE /\ file_queue' = Tail(file_queue)
            /\ tresult' = [tresult EXCEPT ![t] =
                              NewResultOf[Head(file_queue)]]
            /\ tpc' = [tpc EXCEPT ![t] = "lock"]
    /\ UNCHANGED <<xvars, fvars, dir_exists, dir_entries, mpc, unfinished, results, lock, ppc,
                   tasks, output, sheet, writes, plog>>

\* a slip: the with block is entered without waiting for the lock
ThreadAcquire_NoWait(t) ==
    /\ variant = "new" /\ tpc[t] = "lock"
    /\ lock' = t
    /\ tpc' = [tpc EXCEPT ![t] = "append"]
    /\ UNCHANGED <<xvars, fvars, dir_exists, dir_entries, mpc, file_queue, unfinished, results,
                   ppc, tresult, tasks, output, sheet, writes, plog>>

\* line 135: with lock
ThreadAcquire(t) ==
    /\ variant = "new" /\ tpc[t] = "lock"
    /\ lock = 0
    /\ lock' = t
    /\ tpc' = [tpc EXCEPT ![t] = "append"]
    /\ UNCHANGED <<xvars, fvars, dir_exists, dir_entries, mpc, file_queue, unfinished, results,
                   ppc, tresult, tasks, output, sheet, writes, plog>>

\* a slip: a result without detail rows is not appended
ThreadAppend_SkipEmpty(t) ==
    /\ variant = "new" /\ tpc[t] = "append"
    /\ results' = IF tresult[t].details = <<>> THEN results
                  ELSE Append(results, tresult[t])
    /\ tpc' = [tpc EXCEPT ![t] = "release"]
    /\ UNCHANGED <<xvars, fvars, dir_exists, dir_entries, mpc, file_queue, unfinished, lock, ppc,
                   tresult, tasks, output, sheet, writes, plog>>

\* a slip: identifiers already reported for another file are left out
ThreadAppend_DedupAcrossFiles(t) ==
    /\ variant = "new" /\ tpc[t] = "append"
    /\ LET known == UNION {{results[i].details[k][1] : k \in 1..Len(results[i].details)} :
                              i \in 1..Len(results)}
           fresh(d) == d[1] \notin known
       IN results' = Append(results,
                            [tresult[t] EXCEPT !.details = SelectSeq(@, fresh)])
    /\ tpc' = [tpc EXCEPT ![t] = "release"]
    /\ UNCHANGED <<xvars, fvars, dir_exists, dir_entries, mpc, file_queue, unfinished, lock, ppc,
                   tresult, tasks, output, sheet, writes, plog>>

\* line 136
ThreadAppend(t) ==
    /\ variant = "new" /\ tpc[t] = "append"
    /\ results' = Append(results, tresult[t])
    /\ tpc' = [tpc EXCEPT ![t] = "release"]
    /\ UNCHANGED <<xvars, fvars, dir_exists, dir_entries, mpc, file_queue, unfinished, lock, ppc,
                   tresult, tasks, output, sheet, writes, plog>>

\* a slip: the lock is not freed on leaving the with block
ThreadRelease_KeepLock(t) ==
    /\ variant = "new" /\ tpc[t] = "release"
    /\ tpc' = [tpc EXCEPT ![t] = "task_done"]
    /\ UNCHANGED <<xvars, fvars, dir_exists, dir_entries, mpc, file_queue, unfinished, results,
                   lock, ppc, tresult, tasks, output, sheet, writes, plog>>

\* leaving the with block
ThreadRelease(t) ==
    /\ variant = "new" /\ tpc[t] = "release"
    /\ lock' = 0
    /\ tpc' = [tpc EXCEPT ![t] = "task_done"]
    /\ UNCHANGED <<xvars, fvars, dir_exists, dir_entries, mpc, file_queue, unfinished, results,
                   ppc, tresult, tasks, output, sheet, writes, plog>>

\* line 138
ThreadTaskDone(t) ==
    /\ variant = "new" /\ tpc[t] = "task_done"
    /\ unfinished' = unfinished - 1
    /\ tpc' = [tpc EXCEPT ![t] = "get"]
    /\ UNCHANGED <<xvars, fvars, dir_exists, dir_entries, mpc, file_queue, results, lock, ppc,
                   tresult, tasks, output, sheet, writes, plog>>

\* process_worker lines 153-154: all its threads joined, the process exits
ProcExit(p) ==
    /\ variant = "new" /\ ppc[p] = "running"
    /\ \A t \in ThreadsOf(p) : tpc[t] = "done"
    /\ ppc' = [ppc EXCEPT ![p] = "exited"]
    /\ UNCHANGED <<xvars, fvars, dir_exists, dir_entries, mpc, file_queue, unfinished, results,
                   lock, tpc, tresult, tasks, output, sheet, writes, plog>>

\* a slip: only the first process is joined
MainJoin_FirstOnly ==
    /\ variant = "new" /\ mpc = "join"
    /\ ppc[1] = "exited"
    /\ mpc' = "write"
    /\ UNCHANGED <<xvars, fvars, dir_exists, dir_entries, file_queue, unfinished, results, lock,
                   ppc, tpc, tresult, tasks, output, sheet, writes, plog>>

\* main lines 226-227
MainJoin ==
    /\ variant = "new" /\ mpc = "join"
    /\ \A p \in Procs : ppc[p] = "exited"
    /\ mpc' = "write"
    /\ UNCHANGED <<xvars, fvars, dir_exists, dir_entries, file_queue, unfinished, results, lock,
                   ppc, tpc, tresult, tasks, output, sheet, writes, plog>>

\* write_excel(list(results)), lines 158-190: one block per result, sorted
write_excel(rs) == SortResults(rs)

MainWrite ==
    /\ variant = "new" /\ mpc = "write"
    /\ output' = write_excel(results)
    /\ sheet' = render_blocks(write_excel(results))
    /\ writes' = writes + 1
    /\ mpc' = "done"
    /\ UNCHANGED <<xvars, fvars, dir_exists, dir_entries, file_queue, unfinished, results, lock,
                   ppc, tpc, tresult, tasks, plog>>

\* ---- old_consolidate.py ----
\* glob of *.csv and *.CSV
OldIsCsvName(f) == EndsWith(f, K_dotcsv) \/ EndsWith(f, K_dotCSV)

\* consolidate_all_csvs lines 239-256: a missing directory globs to nothing;
\* the sorted files are submitted to the process pool
OldScan ==
    /\ variant = "old" /\ mpc = "start"
    /\ LET files == SortNames({f \in dir_entries : dir_exists /\ OldIsCsvName(f)})
       IN IF files = <<>>
          THEN /\ plog' = plog \cup {"error: no CSV files found"}
               /\ mpc' = "returned"
               /\ UNCHANGED tasks
          ELSE /\ tasks' = [i \in 1..Len(files) |->
                              [file |-> files[i], state |-> "queued", result |-> <<>>]]
               /\ mpc' = "pool"
               /\ UNCHANGED plog
    /\ UNCHANGED <<xvars, fvars, dir_exists, dir_entries, file_queue, unfinished, results, lock,
                   ppc, tpc, tresult, output, sheet, writes>>

\* what process_csv_file can return for each file the directory can hold,
\* by chunk size and by whether chunk tasks may raise (old_consolidate.py)
OldResultsOf ==
    [f \in {CsvNames[i] : i \in 1..Len(CsvNames)}, cs \in 1..MaxChunkSize, raising \in BOOLEAN |->
        old_process_csv_file(f, FileOf(f), cs, raising)]

\* a pool process runs process_csv_file on one file
OldTaskRun(i) ==
    /\ variant = "old" /\ mpc = "pool"
    /\ i \in 1..Len(tasks) /\ tasks[i].state = "queued"
    /\ \E r \in OldResultsOf[tasks[i].file, chunk_size, may_raise] :
          tasks' = [tasks EXCEPT ![i] = [file |-> @.file, state |-> "done", result |-> r]]
    /\ UNCHANGED <<xvars, fvars, dir_exists, dir_entries, mpc, file_queue, unfinished, results,
                   lock, ppc, tpc, tresult, output, sheet, writes, plog>>

\* lines 257-261: as_completed hands over some finished future
OldCollect(i) ==
    /\ variant = "old" /\ mpc = "pool"
    /\ i \in 1..Len(tasks) /\ tasks[i].state = "done"
    /\ results' = Append(results, tasks[i].result)
    /\ tasks' = [tasks EXCEPT ![i].state = "collected"]
    /\ UNCHANGED <<xvars, fvars, dir_exists, dir_entries, mpc, file_queue, unfinished, lock, ppc,
                   tpc, tresult, output, sheet, writes, plog>>

\* lines 283-315: one block per result, in the order of results
old_write(rs) == rs

\* lines 265-329
OldWrite ==
    /\ variant = "old" /\ mpc = "pool"
    /\ \A i \in 1..Len(tasks) : tasks[i].state = "collected"
    /\ output' = old_write(results)
    /\ sheet' = old_render_blocks(old_write(results))
    /\ writes' = writes + 1
    /\ mpc' = "done"
    /\ UNCHANGED <<xvars, fvars, dir_exists, dir_entries, file_queue, unfinished, results, lock,
                   ppc, tpc, tresult, tasks, plog>>

Next ==
    \/ MainCheck \/ MainStart \/ MainJoin \/ MainWrite
    \/ \E t \in Threads : \/ ThreadGet(t) \/ ThreadAcquire(t) \/ ThreadAppend(t)
                          \/ ThreadRelease(t) \/ ThreadTaskDone(t)
    \/ \E p \in Procs : ProcExit(p)
    \/ OldScan \/ OldWrite
    \/ \E i \in 1..Len(CsvNames) : OldTaskRun(i) \/ OldCollect(i)

Spec == Init /\ [][Next]_vars

\* fair scheduling: as long as main, a process, a thread or a pool task can
\* take a step, some step is taken.  This is the weakest fairness: it follows
\* from scheduling every runnable thread eventually.
Fairness == WF_vars(Next)

SpecFair == Spec /\ Fairness

(***************************************************************************)
(* What the claims speak about, stated on the file itself                  *)
(***************************************************************************)
\* the cell of a row under the k-th column, trimmed; empty when the row is short
Cell(row, k) == IF k <= Len(row) THEN Strip(row[k]) ELSE EmptyStr

\* the pieces of s between commas and semicolons
RECURSIVE Tokens(_)
Tokens(s) ==
    LET at == {i \in 1..Len(s) : s[i] \in {",", ";"}}
    IN IF at = {} THEN <<s>>
       ELSE LET i == CHOOSE k \in at : \A j \in at : k <= j
            IN <<SubSeq(s, 1, i - 1)>> \o Tokens(SubSeq(s, i + 1, Len(s)))

\* the identifiers a cell lists: trimmed tokens that begin with CVE-
IdsOfCell(s) ==
    {Strip(Tokens(s)[i]) : i \in {j \in 1..Len(Tokens(s)) : StartsWith(Strip(Tokens(s)[j]), K_CVE)}}

\* the identifiers of a row of a file whose first column is the identifier column
IdsOfRow(row) == IdsOfCell(Cell(row, 1))
IdsOfFile(rows) == UNION {IdsOfRow(rows[i]) : i \in 1..Len(rows)}

FirstRowWith(rows, id) ==
    CHOOSE i \in 1..Len(rows) :
        id \in IdsOfRow(rows[i]) /\ \A j \in 1..(i - 1) : id \notin IdsOfRow(rows[j])

\* the record of identifier id taken from row
RecordOf(id, row) ==
    <<id, Cell(row, 2), Cell(row, 3), Cell(row, 4), Cell(row, 5), Cell(row, 6)>>

\* tier of a record: primary severity first, secondary severity as fallback
TierOfRecord(d) ==
    IF KeywordTier(Lower(d[2])) # "None" THEN KeywordTier(Lower(d[2]))
    ELSE KeywordTier(Lower(d[3]))

\* the identifiers a detail list holds
IdsOfDetails(ds) == UNION {IdsOfCell(ds[i][1]) : i \in 1..Len(ds)}

Returned == fpc = "ret"
\* the file was read without any error and no chunk task raised
CleanRun ==
    /\ input.open_ok /\ input.header # <<>> /\ input.bad = 0
    /\ \A e \in log : e.what # "chunk"

\* the rows of detail list ds can be attributed to rows of the file in
\* non-decreasing row order
RECURSIVE InRowOrder(_, _, _)
InRowOrder(ds, rows, from) ==
    IF ds = <<>> THEN TRUE
    ELSE LET d == Head(ds)
             origin == {r \in from..Len(rows) :
                          /\ d[1] = Cell(rows[r], 1) \/ d[1] \in IdsOfRow(rows[r])
                          /\ d = RecordOf(d[1], rows[r])}
         IN /\ origin # {}
            /\ InRowOrder(Tail(ds), rows,
                          CHOOSE r \in origin : \A q \in origin : r <= q)

(***************************************************************************)
(* The stepwise run of consolidate.py agrees with process_csv_file as an   *)
(* operator (used where a whole call is one step)                          *)
(***************************************************************************)
NewRunIsOperator ==
    (variant = "new" /\ Returned) =>
        /\ severity_counts = process_csv_file(FileName, input).counts
        /\ details = process_csv_file(FileName, input).details
        /\ log = LogOf(FileName, input)

(***************************************************************************)
(* C3: for every file, the detail list has exactly one entry per distinct  *)
(* identifier of the file, carrying the fields of the identifier's first   *)
(* occurrence in row order.  Stated for files with the canonical header.   *)
(***************************************************************************)
C3_OneEntryPerIdentifier ==
    (Returned /\ CleanRun /\ dropped = 0 /\ input.header = hFull) =>
        /\ \A id \in IdsOfFile(input.rows) :
              /\ Cardinality({i \in 1..Len(details) : details[i][1] = id}) = 1
              /\ \A i \in 1..Len(details) :
                    details[i][1] = id =>
                        details[i] = RecordOf(id, input.rows[FirstRowWith(input.rows, id)])
        /\ \A i \in 1..Len(details) : details[i][1] \in IdsOfFile(input.rows)

\* consolidate.py alone satisfies C3
C3_InConsolidate == (variant = "new") => C3_OneEntryPerIdentifier

(***************************************************************************)
(* C4: in every final FileResult the sum of the four tally counts is at    *)
(* most the number of distinct identifiers in the detail list, with        *)
(* equality when every record of the detail list classifies into a tier.   *)
(***************************************************************************)
C4_TallyAtMostIdentifiers ==
    Returned =>
        /\ SumCounts(severity_counts) <= Cardinality(IdsOfDetails(details))
        /\ (\A i \in 1..Len(details) : TierOfRecord(details[i]) # "None")
               => SumCounts(severity_counts) = Cardinality(IdsOfDetails(details))

\* C4 as worded also covers the states inside a file's processing
C4_TallyAtMostIdentifiersAlways ==
    SumCounts(severity_counts) <= Cardinality(IdsOfDetails(details))

\* consolidate.py: the bound holds between identifiers and at return; the
\* equality holds when every record classifies by its primary severity
C4_InConsolidate ==
    (variant = "new" /\ fpc \in {"row", "cve", "ret"}) =>
        /\ SumCounts(severity_counts) <= Cardinality(IdsOfDetails(details))
        /\ (\A i \in 1..Len(details) : KeywordTier(Lower(details[i][2])) # "None")
               => SumCounts(severity_counts) = Cardinality(IdsOfDetails(details))

(***************************************************************************)
(* C6: within one file the detail list reflects original row order, for    *)
(* every order in which the file's chunk tasks complete.                   *)
(***************************************************************************)
C6_DetailsInRowOrder ==
    (Returned /\ CleanRun /\ dropped = 0 /\ input.header = hFull) =>
        InRowOrder(details, input.rows, 1)

\* the merge the claim asks for: chunk results taken in chunk-index order
C6_MergedByChunkIndex ==
    \A i, j \in 1..Len(merge_order) : i < j => merge_order[i] < merge_order[j]

C6_InConsolidate == (variant = "new") => C6_DetailsInRowOrder

(***************************************************************************)
(* C7: a record whose primary severity holds none of the four keywords is  *)
(* classified by its secondary (JFrog) severity: each tally bucket counts  *)
(* the records of the detail list whose tier, with that fallback, is the   *)
(* bucket's.                                                               *)
(***************************************************************************)
C7_FallbackClassification ==
    (Returned /\ CleanRun /\ dropped = 0 /\ input.header = hFull) =>
        \A t \in Tiers :
            severity_counts[t] =
                Cardinality({i \in 1..Len(details) : TierOfRecord(details[i]) = t})

C7_InOldConsolidate == (variant = "old") => C7_FallbackClassification

(***************************************************************************)
(* C8: a file whose identifier column is named with an accepted alias      *)
(* (CVE(s)) yields the same records and tallies as the same file with the  *)
(* column named cves.                                                      *)
(***************************************************************************)
SameElements(a, b) ==
    /\ Len(a) = Len(b)
    /\ \A x \in Range(a) \cup Range(b) :
          Cardinality({i \in 1..Len(a) : a[i] = x})
              = Cardinality({i \in 1..Len(b) : b[i] = x})

\* what the same program returns for the file with its header spelt hFull
\* (old_consolidate.py: its chunks taken in index order)
WithCanonicalHeader ==
    IF variant = "new"
    THEN process_csv_file(FileName, [input EXCEPT !.header = hFull])
    ELSE process_chunk(input.rows, hFull)

C8_AliasResolvesLikeCves ==
    (Returned /\ CleanRun /\ input.header = hAlias) =>
        /\ severity_counts = WithCanonicalHeader.counts
        /\ SameElements(details, WithCanonicalHeader.details)

C8_InOldConsolidate == (variant = "old") => C8_AliasResolvesLikeCves

(***************************************************************************)
(* C9: a file whose header lacks a canonical column is still processed to  *)
(* a full result by consolidate.py: a warning is logged, every detail      *)
(* entry has the empty string in that field, and the other fields and the  *)
(* tally are those of the file that has the column.                        *)
(***************************************************************************)
Blanked(ds, k) == [i \in 1..Len(ds) |-> [ds[i] EXCEPT ![k] = EmptyStr]]

MissingLogged ==
    /\ LogEntry("warning", "missing", hFull[dropped]) \in log
    /\ \A e \in log : e.level = "warning"

Discovered ==
    IF ~dir_exists THEN {}
    ELSE IF variant = "new" THEN {f \in dir_entries : IsCsvName(f)}
    ELSE {f \in dir_entries : OldIsCsvName(f)}

CountIn(seq, f) == Cardinality({i \in 1..Len(seq) : seq[i] = f})
NamesOf(rs) == [i \in 1..Len(rs) |-> rs[i].filename]

\* threads that took a file and have not appended its result yet
Holding(f) ==
    {t \in DOMAIN tpc : tpc[t] \in {"lock", "append"} /\ tresult[t].filename = f}
\* pool tasks of a file not yet collected
Pending(f) ==
    {i \in DOMAIN tasks : tasks[i].file = f /\ tasks[i].state # "collected"}

WorkersFinished == mpc \in {"write", "done"}

(***************************************************************************)
(* C1: under every interleaving each discovered file is taken by exactly   *)
(* one worker, and once all workers have finished the result collection    *)
(* handed to the report writer holds exactly one result per discovered     *)
(* file, failed files included.                                            *)
(***************************************************************************)
C1_OneResultPerFile ==
    /\ mpc \notin {"start", "returned"} =>
          \A f \in Discovered :
              CountIn(file_queue, f) + Cardinality(Holding(f))
                  + Cardinality(Pending(f)) + CountIn(NamesOf(results), f) = 1
    /\ WorkersFinished =>
          /\ Len(results) = Cardinality(Discovered)
          /\ \A f \in Discovered : CountIn(NamesOf(results), f) = 1
    /\ mpc = "done" =>
          /\ Len(output) = Cardinality(Discovered)
          /\ \A f \in Discovered : CountIn(NamesOf(output), f) = 1

\* two files, one of which could not be opened, both reported
C1_Witness ==
    /\ mpc = "done" /\ Len(output) = MaxFiles
    /\ \E i \in 1..Len(output) :
          /\ ~FileOf(output[i].filename).open_ok
          /\ output[i].details = <<>>
    /\ \E i \in 1..Len(output) : output[i].details # <<>>

(***************************************************************************)
(* C2: the blocks of the output are in lexicographic order of filename,    *)
(* for every order in which the workers complete their files.              *)
(***************************************************************************)
C2_BlocksSortedByFilename ==
    mpc = "done" =>
        \A i, j \in 1..Len(output) :
            i < j => StrLess(output[i].filename, output[j].filename)

C2_InConsolidate == (variant = "new") => C2_BlocksSortedByFilename

(***************************************************************************)
(* C5: two runs on the same input, whatever their chunk size, pool sizes   *)
(* and schedule, write the same blocks: every run writes what the run      *)
(* that takes files and chunks strictly in order writes.                   *)
(***************************************************************************)
InOrderResult(f) ==
    IF variant = "new" THEN process_csv_file(f, FileOf(f))
    ELSE CHOOSE r \in old_process_csv_file(f, FileOf(f), Len(FileOf(f).rows) + 1, FALSE) :
             TRUE

InOrderOutput ==
    LET names == SortNames(Discovered)
    IN [i \in 1..Len(names) |-> InOrderResult(names[i])]

C5_SameOutputEveryRun ==
    (mpc = "done" /\ ~may_raise) => output = InOrderOutput

C5_InConsolidate == (variant = "new") => C5_SameOutputEveryRun

(***************************************************************************)
(* C10: when the input directory is missing, or holds no recognised file,  *)
(* no worker is started and nothing is written.                            *)
(***************************************************************************)
C10_NoInputNoWorkNoOutput ==
    Discovered = {} =>
        /\ mpc \in {"start", "returned"}
        /\ \A t \in DOMAIN tpc : tpc[t] = "unstarted"
        /\ \A p \in DOMAIN ppc : ppc[p] = "unstarted"
        /\ tasks = <<>>
        /\ results = <<>> /\ output = <<>> /\ writes = 0
        /\ mpc = "returned" => plog # {}

\* a directory that holds only a file that is not a report: the run has ended
C10_Witness ==
    /\ dir_exists /\ dir_entries = {N_notes} /\ mpc = "returned" /\ writes = 0

(***************************************************************************)
(* C11: a per-file failure (the file cannot be opened, its header cannot   *)
(* be read, or reading some row raises) is contained: the file's result    *)
(* has a zero tally in all four tiers and an empty detail list.            *)
(***************************************************************************)
FileFails(file) == ~file.open_ok \/ file.header = <<>> \/ ReaderRaises(file)

C11_FailedFileIsEmpty ==
    (Returned /\ FileFails(input)) =>
        /\ severity_counts = ZeroCounts
        /\ details = <<>>

\* old_consolidate.py alone satisfies C11: its fallbacks return no details
C11_InOldConsolidate == (variant = "old") => C11_FailedFileIsEmpty

\* consolidate.py keeps C11 for failures before the first data row
C11_InConsolidateBeforeRows ==
    (variant = "new" /\ Returned /\ (~input.open_ok \/ input.header = <<>> \/ input.bad = 1)) =>
        /\ severity_counts = ZeroCounts
        /\ details = <<>>

\* in a whole run the block of every file is the result of that file alone
C11_OtherFilesUnchanged ==
    (mpc = "done" /\ variant = "new") =>
        \A i \in 1..Len(output) :
            output[i] = process_csv_file(output[i].filename, FileOf(output[i].filename))

(***************************************************************************)
(* C12: for every file, each tally bucket equals the number of distinct    *)
(* identifiers whose first occurrence classifies into that tier; a         *)
(* repeated identifier is counted once, under the tier of its first        *)
(* occurrence.  Stated for files with the canonical header.                *)
(***************************************************************************)
FirstRecord(rows, id) == RecordOf(id, rows[FirstRowWith(rows, id)])

TallyOfFirstOccurrences(rows, Tier(_)) ==
    [t \in Tiers |->
        Cardinality({id \in IdsOfFile(rows) : Tier(FirstRecord(rows, id)) = t})]

C12_TallyPerDistinctIdentifier ==
    (Returned /\ CleanRun /\ dropped = 0 /\ input.header = hFull) =>
        severity_counts = TallyOfFirstOccurrences(input.rows, TierOfRecord)

\* tier by the primary severity alone
PrimaryTierOfRecord(d) == KeywordTier(Lower(d[2]))

\* consolidate.py counts each identifier once, under the primary severity of
\* its first occurrence
C12_InConsolidate ==
    (variant = "new" /\ Returned /\ CleanRun /\ dropped = 0 /\ input.header = hFull) =>
        severity_counts = TallyOfFirstOccurrences(input.rows, PrimaryTierOfRecord)

\* old_consolidate.py counts one per row that classifies
C12_OldCountsRows ==
    (variant = "old" /\ Returned /\ CleanRun /\ input.header = hFull) =>
        severity_counts =
            [t \in Tiers |->
                Cardinality({i \in 1..Len(input.rows) :
                                TierOfRecord(RecordOf(Cell(input.rows[i], 1),
                                                      input.rows[i])) = t})]

(***************************************************************************)
(* C13: severity classification is case-insensitive, substring-based and   *)
(* prioritized Critical > High > Medium > Low: every record increments at  *)
(* most one tally bucket, the one of the highest-priority keyword its      *)
(* severity string contains.                                               *)
(***************************************************************************)
PriorityOrder == <<"Critical", "High", "Medium", "Low">>
KeywordOf(t) ==
    CASE t = "Critical" -> K_critical [] t = "High" -> K_high
      [] t = "Medium" -> K_medium [] t = "Low" -> K_low

\* the keywords s contains, whatever the case of its letters
KeywordsIn(s) == {i \in 1..4 : Contains(Lower(s), KeywordOf(PriorityOrder[i]))}

HighestKeyword(s) ==
    IF KeywordsIn(s) = {} THEN "None"
    ELSE PriorityOrder[CHOOSE i \in KeywordsIn(s) : \A j \in KeywordsIn(s) : i <= j]

\* the tier of a record by its primary severity
HighestOfPrimary(d) == HighestKeyword(d[2])
\* old_consolidate.py classifies by the secondary severity when the primary
\* severity holds no keyword
HighestOfEither(d) ==
    IF HighestKeyword(d[2]) # "None" THEN HighestKeyword(d[2]) ELSE HighestKeyword(d[3])

RowRecord(row) == RecordOf(Cell(row, 1), row)

C13_HighestKeywordOnly ==
    /\ variant = "new" => SumCounts(severity_counts) <= Cardinality(seen_cves)
    /\ variant = "old" => SumCounts(severity_counts) <= Len(details)
    /\ (Returned /\ CleanRun /\ dropped = 0 /\ input.header = hFull) =>
          /\ variant = "new" =>
                severity_counts = TallyOfFirstOccurrences(input.rows, HighestOfPrimary)
          /\ variant = "old" =>
                severity_counts =
                    [t \in Tiers |->
                        Cardinality({i \in 1..Len(input.rows) :
                                        HighestOfEither(RowRecord(input.rows[i])) = t})]

\* a file whose first row has severity "Low-HIGH" was tallied under High only
C13_Witness ==
    /\ Returned /\ CleanRun /\ input.header = hFull /\ dropped = 0
    /\ Len(input.rows) = 1
    /\ KeywordsIn(Cell(input.rows[1], 2)) = {2, 4}
    /\ severity_counts = [ZeroCounts EXCEPT !["High"] = 1]

(***************************************************************************)
(* C14: a chunk task that raises is caught where its result is collected   *)
(* and contributes no record and no tally increment; the records and       *)
(* tallies of the file's other chunks are still merged.                    *)
(***************************************************************************)
\* the collected chunks whose task returned, in the order they were collected
ReturnedChunks ==
    LET returned(i) == ~futs[i].exc
    IN SelectSeq(merge_order, returned)

\* what process_chunk returns for every chunk a file of the inputs can have
ChunkResult ==
    [h \in HeaderChoices, rs \in SeqsUpTo(RowChoices, MaxRows) |-> process_chunk(rs, h)]

\* the partial results of the chunks listed in order, added up
RECURSIVE SumOfChunks(_, _, _)
SumOfChunks(order, chunks, header) ==
    IF order = <<>> THEN [counts |-> ZeroCounts, details |-> <<>>]
    ELSE LET r    == ChunkResult[header, chunks[Head(order)]]
             rest == SumOfChunks(Tail(order), chunks, header)
         IN [counts |-> AddCounts(r.counts, rest.counts),
             details |-> r.details \o rest.details]

C14_RaisedChunkContributesNothing ==
    (variant = "old" /\ Returned /\ ~FileFails(input)) =>
        /\ Len(merge_order) = Len(OldChunks)
        /\ \A i \in 1..Len(OldChunks) : \E k \in 1..Len(merge_order) : merge_order[k] = i
        /\ LET merged == SumOfChunks(ReturnedChunks, OldChunks, input.header)
           IN details = merged.details /\ severity_counts = merged.counts
        /\ (\E i \in 1..Len(futs) : futs[i].exc) =>
               LogEntry("warning", "chunk", EmptyStr) \in log

\* of two chunks one raised, before or after the other was merged, and the
\* other's records and tally are in the result
C14_Witness ==
    /\ variant = "old" /\ Returned /\ Len(futs) = 2
    /\ \E i, j \in 1..2 : /\ futs[i].exc /\ ~futs[j].exc
                          /\ details = process_chunk(OldChunks[j], input.header).details
    /\ SumCounts(severity_counts) > 0

\* in a whole run every block is a result of its own file alone
C14_OtherFilesUnaffected ==
    (mpc = "done" /\ variant = "old") =>
        \A i \in 1..Len(output) :
            output[i] \in old_process_csv_file(output[i].filename, FileOf(output[i].filename),
                                               chunk_size, may_raise)

(***************************************************************************)
(* C15: mutual exclusion at the merge point: no two worker threads, of the *)
(* same or of different processes, are inside the append to the shared     *)
(* result collection at once; a thread appends only while it holds the     *)
(* single lock, and the lock is free again once the append is over.        *)
(***************************************************************************)
\* threads inside the with block of thread_worker
InWithBlock == {t \in DOMAIN tpc : tpc[t] \in {"append", "release"}}

C15_MutualExclusion ==
    /\ Cardinality(InWithBlock) <= 1
    /\ \A t \in InWithBlock : lock = t
    /\ lock # 0 => lock \in InWithBlock
    /\ WorkersFinished => lock = 0

\* the result collection of consolidate.py grows only by the append of the
\* thread that holds the lock
C15_AppendsUnderLock ==
    [][(variant = "new" /\ results' # results) =>
          /\ lock # 0 /\ tpc[lock] = "append"
          /\ results' = Append(results, tresult[lock])
          /\ lock' = lock]_vars

\* a thread of one process is appending while a thread of the other process
\* waits for the lock with its own result
C15_Witness ==
    /\ variant = "new"
    /\ \E t, u \in DOMAIN tpc :
          /\ ThreadsOf(1) \cap {t, u} # {} /\ ThreadsOf(2) \cap {t, u} # {}
          /\ tpc[t] = "append" /\ lock = t
          /\ tpc[u] = "lock"

(***************************************************************************)
(* C16: the output is written exactly once per run, and only after every   *)
(* worker process and thread has terminated and every file's result has    *)
(* been appended; the result collection is not modified once the write     *)
(* has begun.                                                              *)
(***************************************************************************)
AllWorkersTerminated ==
    /\ \A p \in DOMAIN ppc : ppc[p] = "exited"
    /\ \A t \in DOMAIN tpc : tpc[t] = "done"
    /\ file_queue = <<>> /\ unfinished = 0 /\ lock = 0

C16_ResultsFrozen ==
    [][WorkersFinished => results' = results]_vars

WorkersStarted == variant = "new" /\ mpc = "join"

RunCompleted ==
    /\ mpc = "done" /\ writes = 1
    /\ AllWorkersTerminated

C17_RunTerminates == WorkersStarted ~> RunCompleted

\* a thread that waits for the lock gets it
C17_NoThreadWaitsForever ==
    \A t \in Threads : (tpc[t] = "lock") ~> (tpc[t] = "append")

\* likewise the pool of old_consolidate.py
C17_OldRunTerminates == (variant = "old" /\ mpc = "pool") ~> (mpc = "done")

\* both files were processed, all four threads have left their loop, both
\* processes were joined and the output is written
C17_Witness ==
    /\ variant = "new" /\ RunCompleted
    /\ Cardinality(Discovered) = MaxFiles
    /\ \A f \in Discovered : CountIn(NamesOf(output), f) = 1

(***************************************************************************)
(* C18: the identifier field of a row is split on commas and semicolons,   *)
(* each token is trimmed, and one record is emitted per token that begins  *)
(* with CVE-; other tokens are dropped.  So every entry of every detail    *)
(* list has one identifier that begins with CVE- and holds no comma or     *)
(* semicolon, and a row with k surviving new identifiers yields k entries  *)
(* sharing the row's other fields.                                         *)
(***************************************************************************)
SingleIdentifier(s) ==
    /\ StartsWith(s, K_CVE)
    /\ \A i \in 1..Len(s) : s[i] \notin {",", ";"}

\* the trimmed tokens that begin with CVE- and were not met before, in order
RECURSIVE SurvivingIds(_, _)
SurvivingIds(tokens, seen) ==
    IF tokens = <<>> THEN <<>>
    ELSE LET t == Strip(Head(tokens))
         IN IF StartsWith(t, K_CVE) /\ t \notin seen
            THEN <<t>> \o SurvivingIds(Tail(tokens), seen \cup {t})
            ELSE SurvivingIds(Tail(tokens), seen)

\* one record per surviving identifier of each row, with the row's other fields
RECURSIVE RecordsOfRows(_, _)
RecordsOfRows(rows, seen) ==
    IF rows = <<>> THEN <<>>
    ELSE LET ids == SurvivingIds(Tokens(Cell(Head(rows), 1)), seen)
         IN [k \in 1..Len(ids) |-> RecordOf(ids[k], Head(rows))]
                \o RecordsOfRows(Tail(rows), seen \cup Range(ids))

C18_IdentifierExtraction ==
    /\ \A i \in 1..Len(details) : SingleIdentifier(details[i][1])
    /\ (Returned /\ CleanRun /\ dropped = 0 /\ input.header = hFull) =>
          details = RecordsOfRows(input.rows, {})

\* consolidate.py alone satisfies C18
C18_InConsolidate == (variant = "new") => C18_IdentifierExtraction

\* old_consolidate.py emits one entry per row, with the trimmed cell as it is
C18_OldKeepsCell ==
    (variant = "old" /\ Returned /\ CleanRun /\ input.header = hFull) =>
        details \in {[k \in 1..Len(o) |-> RowRecord(input.rows[o[k]])] :
                        o \in Perms(1..Len(input.rows))}

(***************************************************************************)
(* C19: deduplication is per file: an identifier that occurs in two files  *)
(* is in the detail list and in the tally of both, whichever workers       *)
(* process the files and in whatever order.                                *)
(***************************************************************************)
\* a report that is read to its end under the canonical header
ReadableReport(file) == file.open_ok /\ file.header = hFull /\ ~ReaderRaises(file)

\* for each report of the directory: its identifiers, and their tally under
\* the primary severity of their first occurrence in that report
OwnOf ==
    [f \in {CsvNames[i] : i \in 1..Len(CsvNames)} |->
        [readable |-> ReadableReport(FileOf(f)),
         ids      |-> IdsOfFile(FileOf(f).rows),
         tally    |-> TallyOfFirstOccurrences(FileOf(f).rows, HighestOfPrimary)]]

\* the result r holds every identifier of its own file once, tallied as in
\* that file alone
OwnIdentifiersOnly(r) ==
    /\ \A id \in OwnOf[r.filename].ids :
          Cardinality({k \in 1..Len(r.details) : r.details[k][1] = id}) = 1
    /\ \A k \in 1..Len(r.details) : r.details[k][1] \in OwnOf[r.filename].ids
    /\ r.counts = OwnOf[r.filename].tally

C19_DedupPerFile ==
    variant = "new" =>
        /\ \A i \in 1..Len(results) :
              OwnOf[results[i].filename].readable => OwnIdentifiersOnly(results[i])
        /\ \A i \in 1..Len(output) :
              OwnOf[output[i].filename].readable => OwnIdentifiersOnly(output[i])

\* two reports that both name CVE-1 were processed, and CVE-1 is in the
\* detail list of both blocks and counted in both tallies
C19_Witness ==
    /\ variant = "new" /\ mpc = "done" /\ Len(output) = 2
    /\ \A i \in 1..2 : /\ \E k \in 1..Len(output[i].details) : output[i].details[k][1] = V_cve1
                       /\ SumCounts(output[i].counts) = 1
    /\ output[1].counts # output[2].counts

(***************************************************************************)
(* C20: reading a field from a row never faults: when the row has fewer    *)
(* cells than the column's position, or the file has no such column, the   *)
(* field is the empty string and the row is still processed, its           *)
(* identifiers emitted with the fields that are present.                   *)
(***************************************************************************)
\* the header names under which each program looks the j-th field up
NamesOfField(j) ==
    IF variant = "new" THEN {REQUIRED_COLUMNS[j]}
    ELSE Range(needed_keys[CanonicalKeys[j]])

\* position of the j-th field's column in the header, 0 when it has none
PositionOfField(header, j) ==
    LET at == {i \in 1..Len(header) : Strip(Lower(header[i])) \in NamesOfField(j)}
    IN IF at = {} THEN 0 ELSE CHOOSE i \in at : \A k \in at : i <= k

\* the j-th field of a row: its trimmed cell, empty when column or cell is absent
FieldOfRow(row, header, j) ==
    LET p == PositionOfField(header, j)
    IN IF p = 0 \/ p > Len(row) THEN EmptyStr ELSE Strip(row[p])

\* entry d was read from row: fields 2..6 are the row's, the identifier is
\* the row's identifier cell or one of the identifiers it lists
EntryOfRow(d, row, header) ==
    /\ \A j \in 2..6 : d[j] = FieldOfRow(row, header, j)
    /\ \/ d[1] = FieldOfRow(row, header, 1)
       \/ d[1] \in IdsOfCell(FieldOfRow(row, header, 1))

C20_WitnessOld ==
    /\ variant = "old" /\ Returned /\ CleanRun /\ Len(details) = 2
    /\ \E r \in 1..Len(input.rows) : Len(input.rows[r]) < Len(input.header)

(***************************************************************************)
(* C21: the layout of a rendered block                                     *)
(***************************************************************************)
\* the rows of the worksheet that hold a value
WrittenRows(rows) == SelectSeq(rows, LAMBDA r : r # BlankRow)

\* the tier the program itself gave a detail record
ProgramTier(d) ==
    LET fields == [NoFields EXCEPT !.severity = d[2], !.jfrog_sev = d[3]]
    IN IF variant = "new" THEN NewTier(fields) ELSE OldTier(fields)

\* how many records of ds the program classified into tier t
ClassifiedInto(ds, t) == Cardinality({i \in 1..Len(ds) : ProgramTier(ds[i]) = t})

\* rows is the block of result r: the filename header line, the four tally
\* lines in priority order, the column-header line, one line per record
IsBlockOf(rows, r) ==
    /\ Len(rows) = 6 + Len(r.details)
    /\ Len(rows[1]) = 1 /\ rows[1][1].kind = "text"
    /\ EndsWith(rows[1][1].text, r.filename)
    /\ \A k \in 1..4 :
          /\ rows[1 + k] = <<Text(TallyNames[k]), Number(r.counts[PriorityOrder[k]])>>
          /\ r.counts[PriorityOrder[k]] = ClassifiedInto(r.details, PriorityOrder[k])
    /\ rows[6] = HeaderRow
    /\ \A i \in 1..Len(r.details) : rows[6 + i] = DetailRow(r.details[i])

\* rows is the blocks of the results rs, one after the other
RECURSIVE AreBlocksOf(_, _)
AreBlocksOf(rows, rs) ==
    IF rs = <<>> THEN rows = <<>>
    ELSE LET n == 6 + Len(Head(rs).details)
         IN /\ Len(rows) >= n
            /\ IsBlockOf(SubSeq(rows, 1, n), Head(rs))
            /\ AreBlocksOf(SubSeq(rows, n + 1, Len(rows)), Tail(rs))

\* C21: every rendered block consists, in this order, of a filename header
\* line, exactly four tally lines for Critical, High, Medium and Low (with
\* value 0 for a tier without record), the column-header line and one line
\* per detail record in detail-list order; a record of no tier is a detail
\* line and is counted by no tally line.  Rows without a value separate the
\* parts and are not lines of the block.
C21_BlockLayout ==
    (mpc = "done" /\ writes = 1) => AreBlocksOf(WrittenRows(sheet), output)

\* consolidate.py renders every block so
C21_InConsolidate == (variant = "new") => C21_BlockLayout

\* a run of consolidate.py wrote a block with a record of no tier and a tier
\* without record
C21_WitnessNew ==
    /\ variant = "new" /\ mpc = "done" /\ writes = 1
    /\ \E b \in 1..Len(output) :
          /\ \E i \in 1..Len(output[b].details) : ProgramTier(output[b].details[i]) = "None"
          /\ \E t \in Tiers : output[b].counts[t] = 0
          /\ \E t \in Tiers : output[b].counts[t] > 0

RECURSIVE CountDetails(_)
CountDetails(rs) ==
    IF rs = <<>> THEN 0 ELSE Len(Head(rs).details) + CountDetails(Tail(rs))

\* old_consolidate.py renders the four tallies of a block as one line of text:
\* a block has three lines before its detail lines
C21_OldOneTallyLine ==
    (variant = "old" /\ mpc = "done" /\ writes = 1) =>
        /\ Len(WrittenRows(sheet)) = 3 * Len(output) + CountDetails(output)
        /\ \A k \in 1..4 : \A i \in 1..Len(sheet) :
              sheet[i] # BlankRow => sheet[i][1] # Text(TallyNames[k])

\* a run of old_consolidate.py wrote a block
C21_WitnessOld == variant = "old" /\ mpc = "done" /\ writes = 1 /\ output # <<>>

(***************************************************************************)
(* run_xray.py: process_component on one component folder.  Every folder   *)
(* is handled by a process of its own (lines 156-159) with its own queue,  *)
(* client and threads; the processes share nothing.                        *)
(***************************************************************************)
MaxLines == 3
\* the most threads a folder gets: stands for the 10 of line 114
MaxWorkerThreads == 2
Workers == 1..MaxWorkerThreads

\* lines of an IMAGES file: a name, another name with white space around
\* it, a line of white space
LineChoices ==
    { <<"a", "\n">>, <<" ", "b", " ", "\n">>, <<" ", "\n">> }

\* a folder without IMAGES file, or with one of up to MaxLines lines
FolderChoices ==
    {[has_images |-> FALSE, lines |-> <<>>]}
    \cup {[has_images |-> TRUE, lines |-> ls] : ls \in SeqsUpTo(LineChoices, MaxLines)}

\* line 96: [line.strip() for line in f.readlines() if line.strip()]
read_images(lines) ==
    LET kept == SelectSeq(lines, LAMBDA l : Strip(l) # <<>>)
    IN [i \in 1..Len(kept) |-> Strip(kept[i])]

\* what requests.post can do: raise (no connection, timeout after 20 s), or
\* return a response with a status code
TriggerOutcomes ==
    {[raised |-> TRUE, status |-> 0]}
    \cup {[raised |-> FALSE, status |-> c] : c \in {200, 404}}

XLogEntry(level, what, subject, status) ==
    [level |-> level, what |-> what, subject |-> subject, status |-> status]

\* trigger_job lines 58-66: the line logged for an outcome
trigger_log(img, o) ==
    IF o.raised THEN XLogEntry("error", "exception", img, 0)
    ELSE IF o.status \in {200, 201, 202} THEN XLogEntry("info", "triggered", img, 0)
    ELSE XLogEntry("error", "failed", img, o.status)

InitXray ==
    /\ folder \in FolderChoices
    /\ xpc = "start"
    /\ q_images = <<>> /\ num_threads = 0 /\ threads = 0
    /\ wpc = [t \in Workers |-> "unstarted"]
    /\ image = [t \in Workers |-> <<>>]
    /\ gets = <<>> /\ posts = <<>> /\ xlog = <<>>
    /\ variant = "xray" /\ chunk_size = 1 /\ may_raise = FALSE
    /\ input = MkFile(FALSE, <<>>, <<>>, 0) /\ full = input /\ dropped = 0
    /\ fpc = "off" /\ col_map = <<>> /\ row_i = 0 /\ cur = NoFields
    /\ cve_list = <<>> /\ seen_cves = {} /\ severity_counts = ZeroCounts
    /\ details = <<>> /\ futs = <<>> /\ merge_order = <<>> /\ log = {}
    /\ dir_exists = FALSE /\ dir_entries = {} /\ mpc = "off"
    /\ file_queue = <<>> /\ unfinished = 0 /\ results = <<>> /\ lock = 0
    /\ ppc = <<>> /\ tpc = <<>> /\ tresult = <<>> /\ tasks = <<>>
    /\ output = <<>> /\ sheet = <<>> /\ writes = 0 /\ plog = {}

\* lines 86-114: read IMAGES, fill the queue, fix the number of threads
XStart ==
    /\ xpc = "start"
    /\ LET images == read_images(folder.lines)
           hello  == XLogEntry("info", "processing", <<>>, 0)
       IN IF ~folder.has_images
          THEN /\ xlog' = xlog \o <<hello, XLogEntry("warning", "missing", <<>>, 0)>>
               /\ xpc' = "done"
               /\ UNCHANGED <<q_images, num_threads>>
          ELSE IF images = <<>>
          THEN /\ xlog' = xlog \o <<hello, XLogEntry("warning", "no images", <<>>, 0)>>
               /\ xpc' = "done"
               /\ UNCHANGED <<q_images, num_threads>>
          ELSE /\ xlog' = Append(xlog, hello)
               /\ q_images' = images
               /\ num_threads' = IF Len(images) < MaxWorkerThreads
                                 THEN Len(images) ELSE MaxWorkerThreads
               /\ xpc' = "spawn"
    /\ UNCHANGED <<fvars, pvars, folder, threads, wpc, image, gets, posts>>

\* lines 116-119: start the next thread
XSpawn ==
    /\ xpc = "spawn" /\ threads < num_threads
    /\ threads' = threads + 1
    /\ wpc' = [wpc EXCEPT ![threads + 1] = "get"]
    /\ xpc' = IF threads + 1 = num_threads THEN "join" ELSE "spawn"
    /\ UNCHANGED <<fvars, pvars, folder, q_images, num_threads, image, gets, posts, xlog>>

\* lines 121-124: every started thread has ended
XJoin ==
    /\ xpc = "join"
    /\ \A t \in 1..threads : wpc[t] = "exited"
    /\ xlog' = Append(xlog, XLogEntry("info", "completed", <<>>, 0))
    /\ xpc' = "done"
    /\ UNCHANGED <<fvars, pvars, folder, q_images, num_threads, threads, wpc, image,
                   gets, posts>>

\* thread_worker lines 74-77: get_nowait, or break on queue.Empty
XGet(t) ==
    /\ wpc[t] = "get"
    /\ IF q_images # <<>>
       THEN /\ image' = [image EXCEPT ![t] = Head(q_images)]
            /\ q_images' = Tail(q_images)
            /\ gets' = Append(gets, t)
            /\ wpc' = [wpc EXCEPT ![t] = "trigger"]
       ELSE /\ wpc' = [wpc EXCEPT ![t] = "exited"]
            /\ UNCHANGED <<image, q_images, gets>>
    /\ UNCHANGED <<fvars, pvars, folder, xpc, num_threads, threads, posts, xlog>>

\* a slip: an exception of the request ends the thread unlogged
XTrigger_RaiseEndsThread(t) ==
    /\ wpc[t] = "trigger"
    /\ \E o \in TriggerOutcomes :
          /\ posts' = Append(posts, [image |-> image[t], by |-> t, outcome |-> o])
          /\ xlog' = IF o.raised THEN xlog ELSE Append(xlog, trigger_log(image[t], o))
          /\ wpc' = [wpc EXCEPT ![t] = IF o.raised THEN "exited" ELSE "get"]
    /\ UNCHANGED <<fvars, pvars, folder, xpc, q_images, num_threads, threads, image, gets>>

\* thread_worker lines 79-80 and trigger_job lines 44-66: one request, one log
\* line, then the sleep of 0.2 s after which the loop goes on
XTrigger(t) ==
    /\ wpc[t] = "trigger"
    /\ \E o \in TriggerOutcomes :
          /\ posts' = Append(posts, [image |-> image[t], by |-> t, outcome |-> o])
          /\ xlog' = Append(xlog, trigger_log(image[t], o))
    /\ wpc' = [wpc EXCEPT ![t] = "get"]
    /\ UNCHANGED <<fvars, pvars, folder, xpc, q_images, num_threads, threads, image, gets>>

NextXray ==
    \/ XStart \/ XSpawn \/ XJoin
    \/ \E t \in Workers : XGet(t) \/ XTrigger(t)

SpecXray == InitXray /\ [][NextXray]_vars

\* a started thread runs: the request returns or raises within its timeout
\* of 20 s, the sleep ends, and main is scheduled
FairnessXray == WF_vars(NextXray)

SpecXrayFair == SpecXray /\ FairnessXray

(***************************************************************************)
(* C22: every image name of a folder is triggered once                     *)
(***************************************************************************)
\* the image names read from the IMAGES file, one entry per kept line
ImagesRead == read_images(folder.lines)

RECURSIVE EntriesGotBy(_, _)
\* the entries thread t dequeued among the first n dequeued, in order
EntriesGotBy(t, n) ==
    IF n = 0 THEN <<>>
    ELSE EntriesGotBy(t, n - 1) \o (IF gets[n] = t THEN <<ImagesRead[n]>> ELSE <<>>)

\* the image names thread t attempted a request for, in order
RequestedBy(t) ==
    LET mine == SelectSeq(posts, LAMBDA p : p.by = t)
    IN [k \in 1..Len(mine) |-> mine[k].image]

\* the lines trigger_job logged, in order
TriggerLines == SelectSeq(xlog, LAMBDA e : e.what \in {"triggered", "failed", "exception"})

\* the queue was filled
QueueFilled == xpc \in {"spawn", "join", "done"} /\ ImagesRead # <<>>

\* entry i is dequeued exactly once, by thread gets[i], and what is not yet
\* dequeued is still queued
DequeuedOnce ==
    /\ Len(gets) <= Len(ImagesRead)
    /\ q_images = SubSeq(ImagesRead, Len(gets) + 1, Len(ImagesRead))
    /\ \A i \in 1..Len(gets) : gets[i] \in 1..threads

\* every thread attempted one request per entry it dequeued, in that order,
\* but for the entry it is about to request
RequestedOnce ==
    \A t \in Workers :
        EntriesGotBy(t, Len(gets)) =
            RequestedBy(t) \o (IF wpc[t] = "trigger" THEN <<image[t]>> ELSE <<>>)

\* every request left its line in the log; a request that raised or was not
\* accepted left an error line that names the image
FailuresLogged ==
    /\ Len(TriggerLines) = Len(posts)
    /\ \A k \in 1..Len(posts) :
          /\ TriggerLines[k].subject = posts[k].image
          /\ (posts[k].outcome.raised \/ posts[k].outcome.status \notin {200, 201, 202})
                => TriggerLines[k].level = "error"

\* a thread ends only on an empty queue, whatever its requests did
ExitOnlyOnEmpty == \A t \in Workers : wpc[t] = "exited" => q_images = <<>>

\* the folder is completed: every entry was dequeued and requested, every
\* started thread has ended
FolderCompleted ==
    /\ xpc = "done"
    /\ q_images = <<>> /\ Len(gets) = Len(ImagesRead) /\ Len(posts) = Len(ImagesRead)
    /\ \A t \in 1..threads : wpc[t] = "exited"

C22_Safety ==
    QueueFilled =>
        /\ DequeuedOnce /\ RequestedOnce /\ FailuresLogged /\ ExitOnlyOnEmpty
        /\ (xpc = "done" => FolderCompleted)

\* C22: for every component folder and under every interleaving of its
\* worker threads, each image name entry read from the IMAGES file is
\* dequeued by exactly one thread and has exactly one trigger request
\* attempted; a failed or raising trigger is logged and does not stop the
\* thread, which ends only on an empty queue; and once the queue is filled
\* the folder is eventually completed with all its threads ended.
C22_EachImageTriggeredOnce ==
    /\ [](C22_Safety)
    /\ (QueueFilled ~> FolderCompleted)

\* a folder whose IMAGES file names an image twice was completed by two
\* threads that both dequeued entries, with a request that raised, one that
\* was refused and one that was accepted
C22_Witness ==
    /\ QueueFilled /\ FolderCompleted
    /\ Len(ImagesRead) = MaxLines
    /\ \E i, j \in 1..Len(ImagesRead) : i # j /\ ImagesRead[i] = ImagesRead[j]
    /\ \A t \in Workers : \E i \in 1..Len(gets) : gets[i] = t
    /\ \E k \in 1..Len(posts) : posts[k].outcome.raised
    /\ \E k \in 1..Len(posts) : ~posts[k].outcome.raised /\ posts[k].outcome.status = 404
    /\ \E k \in 1..Len(posts) : ~posts[k].outcome.raised /\ posts[k].outcome.status = 200

\* an image name that IMAGES lists on n lines has n requests attempted
C22_RequestsPerLine ==
    (QueueFilled /\ xpc = "done") =>
        \A n \in {ImagesRead[i] : i \in 1..Len(ImagesRead)} :
            Cardinality({k \in 1..Len(posts) : posts[k].image = n})
                = Cardinality({i \in 1..Len(ImagesRead) : ImagesRead[i] = n})

\* a folder without IMAGES file or without image name starts no thread and
\* attempts no request
C22_NothingToTrigger ==
    (xpc = "done" /\ ImagesRead = <<>>) =>
        /\ threads = 0 /\ posts = <<>>
        /\ \E k \in 1..Len(xlog) : xlog[k].level = "warning"

=============================================================================
